---- MODULE Spec2Model ----
(***************************************************************************)
(* Link-prediction feature extraction of the notebook                      *)
(* MLNS_KaggleChallenge_LucaPERNA_TimotheeSTROUK_GaldwinLEDUC.ipynb.        *)
(*                                                                         *)
(* The graph G is the networkx adjacency mapping: node -> the list of its  *)
(* neighbours in the order their edges were inserted, as the adjacency     *)
(* dict keeps them (a self-loop puts a node in its own list).              *)
(* Real-valued feature components:                                         *)
(*   - a single quotient of integers is the reduced fraction <<n, d>>;     *)
(*   - a sum accumulated term by term (Adamic-Adar, resource allocation)   *)
(*     is the Python float the loop leaves in score: every addition rounds *)
(*     to 53 bits, so the sum depends on the order of the terms;           *)
(*   - the cosine similarity and the Pearson correlation are the numpy     *)
(*     float64 values, every operation of numpy rounded in its turn.       *)
(* The order in which nx.common_neighbors yields its nodes depends on the  *)
(* installed networkx, which is part of the state.                         *)
(***************************************************************************)
EXTENDS Integers, Sequences, FiniteSets, TLC

VARIABLES train_txt,        \* the lines of train.txt read so far
          node_features,    \* the attribute table, node id -> vector
          G,                \* the graph, node id -> list of neighbours
          edges_positive,   \* the label = 1 rows, in file order
          edges_negative,   \* the other rows, in file order
          pc,               \* the cell or loop the notebook is in
          min_examples,     \* size of each balanced training class
          idx,              \* position of the running training loop
          node1, node2,     \* arguments of the latest extract_features call
          G_pre,            \* the graph when that call was entered
          features,         \* the vector that call returned
          raised,           \* whether that call raised instead of returning
          networkx          \* the networkx the notebook imports as nx

vars == <<train_txt, node_features, G, edges_positive, edges_negative, pc,
          min_examples, idx, node1, node2, G_pre, features, raised,
          networkx>>

(***************************************************************************)
(* Bounds of the model.                                                    *)
(***************************************************************************)
MaxId == 3
MaxRows == 2

Ids == 1..MaxId

(***************************************************************************)
(* Exact arithmetic.                                                       *)
(***************************************************************************)
Abs(n) == IF n < 0 THEN -n ELSE n

RECURSIVE GCD(_, _)
GCD(a, b) == IF b = 0 THEN a ELSE GCD(b, a % b)

\* n / d for integers n and d > 0, as a reduced fraction
Frac(n, d) ==
    LET g == GCD(Abs(n), d) IN <<n \div g, d \div g>>

Zero == <<0, 1>>

(***************************************************************************)
(* Python floats (IEEE 754 binary64), of positive value.  A float is       *)
(* <<e, hi, lo>>: its 53-bit significand is hi * 2^26 + lo, between 2^52   *)
(* and 2^53, and its value is (hi * 2^26 + lo) * 2^(e - 52); float.hex()   *)
(* prints the same significand and exponent.  An operation returns the     *)
(* float nearest to the exact result, ties to even.                        *)
(***************************************************************************)
Limb == 2^26

\* score = 0
FloatZero == <<0, 0, 0>>

\* the float nearest to (hi * Limb + lo + g / 8) * 2^(e - 52): g, in 0..7,
\* holds the two bits after the significand and, as its last bit, whether
\* any later bit of the exact value is set
Round(e, hi, lo, g) ==
    LET up == g > 4 \/ (g = 4 /\ lo % 2 = 1)
        lo1 == IF up THEN lo + 1 ELSE lo
        hi1 == IF lo1 = Limb THEN hi + 1 ELSE hi
    IN  IF hi1 = 2 * Limb THEN <<e + 1, Limb, 0>> ELSE <<e, hi1, lo1 % Limb>>

RECURSIVE Log2(_)
Log2(d) ==
    IF d < 2 THEN 0
    ELSE IF d >= 2^8 THEN 8 + Log2(d \div 2^8)
    ELSE 1 + Log2(d \div 2)

\* 1.0 / d for an integer d >= 1: the long division, 13 bits at a time
Recip(d) ==
    LET k == Log2(d)
        e == IF 2^k = d THEN -k ELSE -(k + 1)
        r0 == 2^(-e) - d
        q1 == (r0 * 2^13) \div d
        r1 == (r0 * 2^13) % d
        q2 == (r1 * 2^13) \div d
        r2 == (r1 * 2^13) % d
        q3 == (r2 * 2^13) \div d
        r3 == (r2 * 2^13) % d
        q4 == (r3 * 2^13) \div d
        r4 == (r3 * 2^13) % d
        g == 2 * ((r4 * 4) \div d) + (IF (r4 * 4) % d = 0 THEN 0 ELSE 1)
    IN  Round(e, Limb + q1 * 2^13 + q2, q3 * 2^13 + q4, g)

\* hi * 2^29 + lo shifted right by s bits, as <<hi, lo>> again; the last bit
\* of the result is set when a bit that is set is shifted out
ShiftRight(hi, lo, s) ==
    IF s = 0 THEN <<hi, lo>>
    ELSE IF s < 29
    THEN LET v == (hi % 2^s) * 2^(29 - s) + lo \div 2^s
         IN  <<hi \div 2^s, IF lo % 2^s # 0 /\ v % 2 = 0 THEN v + 1 ELSE v>>
    ELSE IF s < 56
    THEN LET v == hi \div 2^(s - 29)
         IN  <<0, IF (hi % 2^(s - 29) # 0 \/ lo # 0) /\ v % 2 = 0
                  THEN v + 1 ELSE v>>
    ELSE <<0, 1>>

\* the float nearest to (t[1] * 2^29 + t[2]) * 2^(e - 55), t[1] of 27 bits:
\* the last three bits of t[2] are the bits after the significand
RoundGuard(e, t) == Round(e, t[1], t[2] \div 8, t[2] % 8)

\* the sum (hi * 2^29 + lo) * 2^(e - 55), of 56 or 57 bits
AddRound(e, hi, lo) ==
    IF hi >= 2 * Limb THEN RoundGuard(e + 1, ShiftRight(hi, lo, 1))
    ELSE RoundGuard(e, <<hi, lo>>)

\* big + the smaller term, aligned on big as sh
AddAligned(big, sh) ==
    AddRound(big[1], big[2] + sh[1] + (big[3] * 8 + sh[2]) \div 2^29,
             (big[3] * 8 + sh[2]) % 2^29)

\* x + y: the smaller term is aligned on the larger, with three more bits
FloatAdd(x, y) ==
    IF x = FloatZero THEN y
    ELSE IF y = FloatZero THEN x
    ELSE IF x[1] >= y[1]
    THEN AddAligned(x, ShiftRight(y[2], y[3] * 8, x[1] - y[1]))
    ELSE AddAligned(y, ShiftRight(x[2], x[3] * 8, y[1] - x[1]))

\* whether x < y, for two positive floats
FloatLess(x, y) ==
    \/ x[1] < y[1]
    \/ x[1] = y[1] /\ (x[2] < y[2] \/ (x[2] = y[2] /\ x[3] < y[3]))

\* hi * 2^29 + lo shifted left by s bits, as <<hi, lo>> again, for a value
\* that stays below 2^56
ShiftLeft(hi, lo, s) ==
    IF s <= 29 THEN <<hi * 2^s + lo \div 2^(29 - s), (lo % 2^(29 - s)) * 2^s>>
    ELSE <<lo * 2^(s - 29), 0>>

\* the difference (hi * 2^29 + lo) * 2^(e - 55), not 0, shifted back to 56
\* bits
Normalise(e, hi, lo) ==
    LET n == IF hi > 0 THEN 30 + Log2(hi) ELSE 1 + Log2(lo)
    IN  RoundGuard(e - (56 - n), ShiftLeft(hi, lo, 56 - n))

\* x - the smaller term, aligned on x as sh
SubAligned(x, sh) ==
    LET borrow == IF x[3] * 8 < sh[2] THEN 1 ELSE 0
    IN  Normalise(x[1], x[2] - sh[1] - borrow,
                  x[3] * 8 - sh[2] + borrow * 2^29)

\* x - y for x > y: y is aligned on x with three more bits, and the
\* difference is shifted back to 53 bits
FloatSub(x, y) ==
    IF y = FloatZero THEN x
    ELSE SubAligned(x, ShiftRight(y[2], y[3] * 8, x[1] - y[1]))

\* the significand of x as four digits of 14 bits, the lowest first
Digits(x) ==
    <<x[3] % 2^14, x[3] \div 2^14 + (x[2] % 4) * 2^12,
      (x[2] \div 4) % 2^14, x[2] \div 2^16>>

\* the seven columns of the long multiplication of a by b
MulColumns(a, b) ==
    <<a[1] * b[1],
      a[1] * b[2] + a[2] * b[1],
      a[1] * b[3] + a[2] * b[2] + a[3] * b[1],
      a[1] * b[4] + a[2] * b[3] + a[3] * b[2] + a[4] * b[1],
      a[2] * b[4] + a[3] * b[3] + a[4] * b[2],
      a[3] * b[4] + a[4] * b[3],
      a[4] * b[4]>>

RECURSIVE Carry(_, _, _)
\* the digits of the columns c from the k-th on, with the carry of the
\* columns before; the last one keeps its carry
Carry(c, k, carry) ==
    IF k = Len(c) THEN <<c[k] + carry>>
    ELSE <<(c[k] + carry) % 2^14>> \o Carry(c, k + 1, (c[k] + carry) \div 2^14)

\* the leading 53 bits of the product p of 105 or 106 bits, given as its
\* digits, and what the bits after them round to
MulRound(e, p) ==
    LET low == IF p[1] # 0 \/ p[2] # 0 \/ p[3] # 0 THEN 1 ELSE 0
        tl == p[4] \div 2^10 + p[5] * 2^4 + (p[6] % 2^8) * 2^18
        th == p[6] \div 2^8 + p[7] * 2^6
    IN  IF th >= 2 * Limb
        THEN Round(e + 1, th \div 2, (th % 2) * 2^25 + tl \div 2,
                   4 * (tl % 2)
                       + (IF p[4] % 2^10 # 0 \/ low = 1 THEN 1 ELSE 0))
        ELSE Round(e, th, tl,
                   4 * ((p[4] \div 2^9) % 2)
                       + (IF p[4] % 2^9 # 0 \/ low = 1 THEN 1 ELSE 0))

\* x * y: the significands as four digits of 14 bits, the long
\* multiplication, and the leading 53 bits of the product
FloatMul(x, y) ==
    MulRound(x[1] + y[1], Carry(MulColumns(Digits(x), Digits(y)), 1, 0))

\* one step of the long division by d = <<hi, lo>>: the remainder
\* <<s[1], s[2]>> is doubled, d taken off it when it fits, and the bit
\* appended to the quotient <<s[3], s[4]>>
DivStep(s, d) ==
    LET rl == (2 * s[2]) % Limb
        rh == 2 * s[1] + (2 * s[2]) \div Limb
        borrow == IF rl < d[2] THEN 1 ELSE 0
    IN  IF rh > d[1] \/ (rh = d[1] /\ rl >= d[2])
        THEN <<rh - d[1] - borrow, rl - d[2] + borrow * Limb,
               2 * s[3] + (2 * s[4] + 1) \div Limb, (2 * s[4] + 1) % Limb>>
        ELSE <<rh, rl, 2 * s[3] + (2 * s[4]) \div Limb, (2 * s[4]) % Limb>>

\* hi * 2^26 + lo shifted left by n bits, as <<hi, lo>> again, for a value
\* that stays below 2^54
ShiftLimbs(hi, lo, n) ==
    IF n <= 26
    THEN <<hi * 2^n + lo \div 2^(26 - n), (lo % 2^(26 - n)) * 2^n>>
    ELSE <<(hi * Limb + lo) * 2^(n - 26), 0>>

RECURSIVE DivSteps(_, _, _)
\* n steps; with no remainder left the other bits of the quotient are 0
DivSteps(s, d, n) ==
    IF n = 0 THEN s
    ELSE IF s[1] = 0 /\ s[2] = 0
    THEN <<0, 0>> \o ShiftLimbs(s[3], s[4], n)
    ELSE DivSteps(DivStep(s, d), d, n - 1)

\* the float of exponent e whose significand is the first 53 bits of the
\* 54 bits <<s[3], s[4]>>, rounded on the last bit and on whether the
\* remainder <<s[1], s[2]>> is 0
RoundBits(e, s) ==
    Round(e, s[3] \div 2, (s[3] % 2) * 2^25 + s[4] \div 2,
          4 * (s[4] % 2) + (IF s[1] = 0 /\ s[2] = 0 THEN 0 ELSE 1))

\* the quotient of n by d, n >= d, two significands as <<hi, lo>>: its
\* first bit is 1, and 53 steps give the bits after it
DivBits(e, n, d) ==
    LET borrow == IF n[2] < d[2] THEN 1 ELSE 0
    IN  RoundBits(e, DivSteps(<<n[1] - d[1] - borrow,
                                n[2] - d[2] + borrow * Limb, 0, 1>>, d, 53))

\* x / y: the quotient of the significands bit by bit, 53 bits and one
\* more; the significand of x is doubled when it is the smaller one
FloatDiv(x, y) ==
    IF x[2] > y[2] \/ (x[2] = y[2] /\ x[3] >= y[3])
    THEN DivBits(x[1] - y[1], <<x[2], x[3]>>, <<y[2], y[3]>>)
    ELSE DivBits(x[1] - y[1] - 1,
                 <<2 * x[2] + (2 * x[3]) \div Limb, (2 * x[3]) % Limb>>,
                 <<y[2], y[3]>>)

\* whether the remainder <<rh, rl>> holds the trial value <<th, tl>>
Holds(rh, rl, th, tl) == rh > th \/ (rh = th /\ rl >= tl)

\* the step of the square root once two more bits have come down to the
\* remainder <<rh, rl>>: the trial value <<th, tl>> is four times the root
\* <<s[3], s[4]>> plus 1; it is taken off the remainder when it fits, and
\* the root takes the bit
SqrtTake(rh, rl, th, tl, s) ==
    IF Holds(rh, rl, th, tl)
    THEN <<rh - th - (IF rl < tl THEN 1 ELSE 0),
           rl - tl + (IF rl < tl THEN Limb ELSE 0),
           2 * s[3] + (2 * s[4] + 1) \div Limb, (2 * s[4] + 1) % Limb>>
    ELSE <<rh, rl, 2 * s[3] + (2 * s[4]) \div Limb, (2 * s[4]) % Limb>>

\* one step of the digit-by-digit square root: two more bits of the
\* radicand come down to the remainder <<s[1], s[2]>>, and the root
\* <<s[3], s[4]>> takes one more bit
SqrtStep(s, pair) ==
    SqrtTake(4 * s[1] + (4 * s[2] + pair) \div Limb, (4 * s[2] + pair) % Limb,
             4 * s[3] + (4 * s[4] + 1) \div Limb, (4 * s[4] + 1) % Limb, s)

RECURSIVE SqrtSteps(_, _, _)
\* the steps for the n pairs of bits of word, the leading pair first; with
\* nothing left to take the root of, the other bits of the root are 0
SqrtSteps(s, word, n) ==
    IF n = 0 THEN s
    ELSE IF s[1] = 0 /\ s[2] = 0 /\ word % 4^n = 0
    THEN <<0, 0>> \o ShiftLimbs(s[3], s[4], n)
    ELSE SqrtSteps(SqrtStep(s, (word \div 4^(n - 1)) % 4), word, n - 1)

\* the root, to 54 bits, of the 106 or 107 bits that <<wh, wl>> and 54
\* zeros after them make
SqrtBits(e, wh, wl) ==
    RoundBits(e, SqrtSteps(SqrtSteps(SqrtSteps(SqrtSteps(
                     <<0, 0, 0, 0>>, wh, 14), wl, 13), 0, 14), 0, 13))

\* sqrt(x): the root of the significand, scaled to an even exponent, to 54
\* bits
FloatSqrt(x) ==
    IF x[1] % 2 = 1
    THEN SqrtBits((x[1] - 1) \div 2,
                  2 * x[2] + (2 * x[3]) \div Limb, (2 * x[3]) % Limb)
    ELSE SqrtBits(x[1] \div 2, x[2], x[3])

\* the float 0x1.h[1]...h[13]p+e, h its thirteen hexadecimal digits
Hex(e, h) ==
    <<e,
      Limb + h[1] * 2^22 + h[2] * 2^18 + h[3] * 2^14 + h[4] * 2^10
           + h[5] * 2^6 + h[6] * 2^2 + h[7] \div 4,
      (h[7] % 4) * 2^24 + h[8] * 2^20 + h[9] * 2^16 + h[10] * 2^12
           + h[11] * 2^8 + h[12] * 2^4 + h[13]>>

\* 1.0 / log(d), log the natural logarithm of math, for d = 2, ..., 12
InvLogs ==
    << Hex(0, <<7, 1, 5, 4, 7, 6, 5, 2, 11, 8, 2, 15, 14>>),
       Hex(-1, <<13, 2, 0, 10, 14, 0, 3, 11, 12, 12, 1, 5, 2>>),
       Hex(-1, <<7, 1, 5, 4, 7, 6, 5, 2, 11, 8, 2, 15, 14>>),
       Hex(-1, <<3, 14, 1, 15, 9, 12, 12, 15, 9, 7, 7, 7, 7>>),
       Hex(-1, <<1, 13, 12, 0, 10, 13, 1, 1, 2, 12, 14, 3, 14>>),
       Hex(-1, <<0, 7, 1, 13, 10, 14, 15, 11, 14, 4, 11, 4, 10>>),
       Hex(-2, <<14, 12, 7, 0, 9, 13, 12, 3, 10, 0, 3, 15, 14>>),
       Hex(-2, <<13, 2, 0, 10, 14, 0, 3, 11, 12, 12, 1, 5, 2>>),
       Hex(-2, <<11, 12, 11, 7, 11, 1, 5, 2, 6, 14, 5, 0, 13>>),
       Hex(-2, <<10, 11, 0, 10, 8, 10, 0, 10, 2, 8, 12, 3, 10>>),
       Hex(-2, <<9, 12, 1, 6, 8, 1, 9, 7, 0, 12, 8, 8, 15>>) >>

\* 1.0 / log(d) for an integer d > 1
InvLog(d) == InvLogs[d - 1]

(***************************************************************************)
(* numpy float64 values of either sign: <<s, e, hi, lo>>, s = 1 or -1 the  *)
(* sign and <<e, hi, lo>> the positive float that is the absolute value;   *)
(* zero is <<0, 0, 0, 0>> (0.0 == -0.0, and 0 == 0.0, in Python).  The     *)
(* exponents of the model stay far from the overflow and the underflow of  *)
(* binary64.                                                               *)
(***************************************************************************)
SignedZero == <<0, 0, 0, 0>>

\* the exponent of nan and inf is one above the largest of a float
nan == <<0, 1024, Limb, 1>>

inf(s) == <<s, 1024, Limb, 0>>

Signed(s, m) == IF m = FloatZero THEN SignedZero ELSE <<s, m[1], m[2], m[3]>>

Magnitude(x) == <<x[2], x[3], x[4]>>

\* float(n) for an integer of at most 26 bits
float(n) ==
    IF n = 0 THEN SignedZero
    ELSE <<IF n < 0 THEN -1 ELSE 1, Log2(Abs(n)),
           Abs(n) * 2^(26 - Log2(Abs(n))), 0>>

\* np.array([float(x) for x in row[1:]])
array(row) == [k \in 1..Len(row) |-> float(row[k])]

add(x, y) ==
    IF x = SignedZero THEN y
    ELSE IF y = SignedZero THEN x
    ELSE IF x[1] = y[1] THEN Signed(x[1], FloatAdd(Magnitude(x), Magnitude(y)))
    ELSE IF Magnitude(x) = Magnitude(y) THEN SignedZero
    ELSE IF FloatLess(Magnitude(x), Magnitude(y))
    THEN Signed(y[1], FloatSub(Magnitude(y), Magnitude(x)))
    ELSE Signed(x[1], FloatSub(Magnitude(x), Magnitude(y)))

subtract(x, y) == add(x, <<-y[1], y[2], y[3], y[4]>>)

multiply(x, y) ==
    IF x = SignedZero \/ y = SignedZero THEN SignedZero
    ELSE Signed(x[1] * y[1], FloatMul(Magnitude(x), Magnitude(y)))

\* x / y for finite x and y, or nan; 0.0 / 0.0 is nan, any other x / 0.0 inf
true_divide(x, y) ==
    IF x = nan \/ y = nan THEN nan
    ELSE IF y = SignedZero THEN (IF x = SignedZero THEN nan ELSE inf(x[1]))
    ELSE IF x = SignedZero THEN SignedZero
    ELSE Signed(x[1] * y[1], FloatDiv(Magnitude(x), Magnitude(y)))

\* np.sqrt(x) for x >= 0
sqrt(x) == Signed(1, IF x = SignedZero THEN FloatZero ELSE FloatSqrt(Magnitude(x)))

RECURSIVE sum(_, _)
\* np.add.reduce over the first k entries of a; numpy adds fewer than 8
\* floats one after the other
sum(a, k) == IF k = 0 THEN SignedZero ELSE add(sum(a, k - 1), a[k])

RECURSIVE dot(_, _, _)
\* np.dot of the first k entries of a and b: the products added in order.
\* The BLAS behind numpy may add them in another order or fuse a product
\* with its addition; the result is the same when the products and their
\* sums are floats exactly, as for the vectors of AttrTables
dot(a, b, k) ==
    IF k = 0 THEN SignedZero ELSE add(dot(a, b, k - 1), multiply(a[k], b[k]))

\* np.clip(c, -1, 1)
clip(x) ==
    IF x = nan THEN nan
    ELSE IF x[2] > 0 \/ (x[2] = 0 /\ (x[3] > Limb \/ x[4] > 0))
    THEN <<x[1], 0, Limb, 0>>
    ELSE x

(***************************************************************************)
(* networkx.Graph operations used by the notebook.                         *)
(***************************************************************************)
\* the elements of a list, or the keys of a dict kept as their list
set(q) == {q[k] : k \in 1..Len(q)}

\* d[k] = value on a dict of keys: a key already there keeps its place
setitem(keys, k) == IF k \in set(keys) THEN keys ELSE Append(keys, k)

\* del d[k]
delitem(keys, k) ==
    LET Other(x) == x # k IN SelectSeq(keys, Other)

has_node(g, n) == n \in DOMAIN g

add_node(g, n) == IF n \in DOMAIN g THEN g ELSE g @@ (n :> <<>>)

add_edge(g, u, v) ==
    LET g1 == add_node(add_node(g, u), v)
    IN  [n \in DOMAIN g1 |->
            IF n = u THEN setitem(g1[n], v)
            ELSE IF n = v THEN setitem(g1[n], u)
            ELSE g1[n]]

has_edge(g, u, v) == u \in DOMAIN g /\ v \in set(g[u])

\* mutant: every edge of u goes with the one removed
remove_edges_of(g, u, v) ==
    [n \in DOMAIN g |-> IF n = u THEN <<>> ELSE delitem(g[n], u)]

remove_edge(g, u, v) ==
    [n \in DOMAIN g |->
        IF n = u THEN delitem(g[n], v)
        ELSE IF n = v THEN delitem(g[n], u)
        ELSE g[n]]

\* the iterator over the adjacency of n
neighbors(g, n) == g[n]

\* a self-loop counts twice in the degree
degree(g, n) == Len(g[n]) + (IF n \in set(g[n]) THEN 1 ELSE 0)

(***************************************************************************)
(* The set of CPython (3.10 and later, which networkx from 3.3 runs on),   *)
(* for keys that are positive integers: hash(k) is k.  A set is the record *)
(* of its table, of fill, the number of slots in use, and of used, the     *)
(* number of keys.  Slot i of the table is table[i + 1]: 0 for a slot      *)
(* never used, -1 for the dummy a removal leaves, or the key.  A set is    *)
(* read in the order of its table.                                         *)
(***************************************************************************)
RECURSIVE set_table(_)
\* a table of size slots, a power of 2 from 8, none of them used
set_table(size) ==
    IF size = 8 THEN <<0, 0, 0, 0, 0, 0, 0, 0>>
    ELSE set_table(size \div 2) \o set_table(size \div 2)

\* set()
set_new == [table |-> set_table(8), fill |-> 0, used |-> 0]

\* the keys of the set, in the order iter() yields them
set_items(so) ==
    LET Active(entry) == entry > 0 IN SelectSeq(so.table, Active)

RECURSIVE set_lookkey(_, _, _, _, _)
\* the slot where the search for key ends, a slot never used or the slot of
\* key: slot i and, while they are in the table, the 9 slots after it, then
\* the same from the slot the perturbed hash gives
set_lookkey(table, key, i, perturb, probe) ==
    LET mask == Len(table) - 1
    IN  IF table[i + probe + 1] = 0 \/ table[i + probe + 1] = key
        THEN i + probe
        ELSE IF probe < (IF i + 9 <= mask THEN 9 ELSE 0)
        THEN set_lookkey(table, key, i, perturb, probe + 1)
        ELSE set_lookkey(table, key,
                         (i * 5 + 1 + perturb \div 2^5) % (mask + 1),
                         perturb \div 2^5, 0)

\* the slot of key in the table, or the slot it would take
set_slot(table, key) == set_lookkey(table, key, key % Len(table), key, 0) + 1

set_contains(so, key) == so.table[set_slot(so.table, key)] = key

RECURSIVE set_newsize(_, _)
set_newsize(size, minused) ==
    IF size > minused THEN size ELSE set_newsize(2 * size, minused)

RECURSIVE set_insert_clean(_, _, _)
\* keys[1], ..., keys[k], none of them in the table, inserted in this order
set_insert_clean(table, keys, k) ==
    IF k = 0 THEN table
    ELSE LET filled == set_insert_clean(table, keys, k - 1)
         IN  [filled EXCEPT ![set_slot(filled, keys[k])] = keys[k]]

\* set_table_resize: the keys go to a new table in the order of the old
\* one, and the dummies are left behind
set_table_resize(so, minused) ==
    [table |-> set_insert_clean(set_table(set_newsize(8, minused)),
                                set_items(so), so.used),
     fill |-> so.used, used |-> so.used]

\* set_add_entry, on a set without dummies: the table grows when three
\* fifths of it are in use
set_add(so, key) ==
    LET slot == set_slot(so.table, key)
        added == [table |-> [so.table EXCEPT ![slot] = key],
                  fill |-> so.fill + 1, used |-> so.used + 1]
    IN  IF so.table[slot] = key THEN so
        ELSE IF added.fill * 5 < (Len(added.table) - 1) * 3 THEN added
        ELSE set_table_resize(added, added.used * 4)

RECURSIVE set_update(_, _, _)
\* the keys keys[1], ..., keys[k] added in this order
set_update(so, keys, k) ==
    IF k = 0 THEN so ELSE set_add(set_update(so, keys, k - 1), keys[k])

\* set(d) for a dict d of these keys: the table is sized for the dict first
set_from_dict(keys) ==
    set_update(IF Len(keys) * 5 >= 7 * 3
               THEN set_table_resize(set_new, Len(keys) * 2)
               ELSE set_new,
               keys, Len(keys))

set_discard(so, key) ==
    LET slot == set_slot(so.table, key)
    IN  IF so.table[slot] = key
        THEN [so EXCEPT !.table[slot] = -1, !.used = so.used - 1]
        ELSE so

\* s.difference_update({u, v}): the dummies are resized away when they are
\* more than a quarter of the table
set_difference_update(so, u, v) ==
    LET left == set_discard(set_discard(so, u), v)
    IN  IF left.fill - left.used > (Len(left.table) - 1) \div 4
        THEN set_table_resize(left, left.used * 4)
        ELSE left

\* a.keys() & other for a dict a and a set other: the keys of the smaller
\* of the two that are in the other one, added to a new set as they come
dictview_intersect(keys, other) ==
    LET InOther(k) == set_contains(other, k)
        InKeys(k) == k \in set(keys)
        found == IF Len(keys) <= other.used
                 THEN SelectSeq(keys, InOther)
                 ELSE SelectSeq(set_items(other), InKeys)
    IN  set_update(set_new, found, Len(found))

\* the networkx the notebook may run on: before 3.3 or from 3.3
Builds == {"networkx < 3.3", "networkx >= 3.3"}

\* list(nx.common_neighbors(G, u, v)).  Before 3.3 the iterator runs over
\* the adjacency of u: (w for w in G[u] if w in G[v] and w not in (u, v)).
\* From 3.3 it is the set G._adj[u].keys() & G._adj[v].keys() - {u, v},
\* the difference taken first, and the list has the order of that set
common_neighbors(nx, g, u, v) ==
    IF nx = "networkx < 3.3"
    THEN LET Common(w) == w \in set(g[v]) /\ w \notin {u, v}
         IN  SelectSeq(g[u], Common)
    ELSE set_items(dictview_intersect(g[u],
             set_difference_update(set_from_dict(g[v]), u, v)))

NoPath == -1

RECURSIVE BFS(_, _, _, _, _)
BFS(g, seen, frontier, target, d) ==
    IF target \in frontier THEN d
    ELSE IF frontier = {} THEN NoPath
    ELSE LET next == (UNION {set(g[n]) : n \in frontier}) \ seen
         IN  BFS(g, seen \cup next, next, target, d + 1)

\* mutant: the number of nodes of a shortest path
shortest_path_nodes(g, source, target) ==
    BFS(g, {source}, {source}, target, 1)

\* the number of edges of a shortest path, or NoPath for NetworkXNoPath
shortest_path_length(g, source, target) ==
    BFS(g, {source}, {source}, target, 0)

(***************************************************************************)
(* The custom metrics.                                                     *)
(***************************************************************************)
RECURSIVE adamic_adar_score(_, _, _)
\* score after the loop has run over the first k common neighbours
adamic_adar_score(g, neighbours, k) ==
    IF k = 0 THEN FloatZero
    ELSE LET score == adamic_adar_score(g, neighbours, k - 1)
             d == degree(g, neighbours[k])
         IN  IF d > 1 THEN FloatAdd(score, InvLog(d)) ELSE score

custom_adamic_adar_index(nx, g, n1, n2) ==
    LET neighbours == common_neighbors(nx, g, n1, n2)
    IN  adamic_adar_score(g, neighbours, Len(neighbours))

RECURSIVE resource_allocation_score(_, _, _)
resource_allocation_score(g, neighbours, k) ==
    IF k = 0 THEN FloatZero
    ELSE LET score == resource_allocation_score(g, neighbours, k - 1)
             d == degree(g, neighbours[k])
         IN  IF d > 0 THEN FloatAdd(score, Recip(d)) ELSE score

custom_resource_allocation_index(nx, g, n1, n2) ==
    LET neighbours == common_neighbors(nx, g, n1, n2)
    IN  resource_allocation_score(g, neighbours, Len(neighbours))

custom_jaccard_coefficient(g, n1, n2) ==
    LET neighbors1 == set(neighbors(g, n1))
        neighbors2 == set(neighbors(g, n2))
        union_size == Cardinality(neighbors1 \cup neighbors2)
    IN  IF union_size = 0 THEN Zero
        ELSE Frac(Cardinality(neighbors1 \cap neighbors2), union_size)

\* np.linalg.norm(vec) is sqrt(vec.dot(vec))
norm(vec) == sqrt(dot(vec, vec, Len(vec)))

\* lines 177 to 180 on the three numbers of lines 173 to 175
cosine(dot_product, norm1, norm2) ==
    IF multiply(norm1, norm2)[1] > 0
    THEN true_divide(dot_product, multiply(norm1, norm2))
    ELSE SignedZero

cosine_similarity(vec1, vec2) ==
    cosine(dot(array(vec1), array(vec2), Len(vec1)),
           norm(array(vec1)), norm(array(vec2)))

\* np.average of a row
average(a) == true_divide(sum(a, Len(a)), float(Len(a)))

\* X -= avg of np.cov, for one row
centered(a, avg) == [k \in 1..Len(a) |-> subtract(a[k], avg)]

\* np.cov of two rows: c = dot(X, X.T) * (1 / (N - 1)) on the rows less
\* their means, as <<c[0, 0], c[0, 1], c[1, 1]>>.  A single column leaves
\* 0 * inf in c, a nan
cov(X0, X1, fact) ==
    <<multiply(dot(X0, X0, Len(X0)), fact),
      multiply(dot(X0, X1, Len(X0)), fact),
      multiply(dot(X1, X1, Len(X0)), fact)>>

\* c[0, 1] divided by the square roots of c[0, 0] and of c[1, 1], one
\* after the other in this order, then clipped
correlation(c) == clip(true_divide(true_divide(c[2], sqrt(c[1])), sqrt(c[3])))

\* np.corrcoef(x, y)[0, 1]
corrcoef(x, y) ==
    IF Len(x) < 2 THEN nan
    ELSE correlation(cov(centered(array(x), average(array(x))),
                         centered(array(y), average(array(y))),
                         true_divide(float(1), float(Len(x) - 1))))

matching_topics(u, v) ==
    Cardinality({k \in 1..Len(u) : u[k] # 0 /\ v[k] # 0})

(***************************************************************************)
(* extract_features, block by block.  A block is a record: raised tells    *)
(* whether an exception leaves the block, value is what it appends.        *)
(***************************************************************************)
\* [0] * 10
DefaultFeatures ==
    <<0, Zero, 0, FloatZero, FloatZero, 0, SignedZero, SignedZero, 0, Zero>>

\* mutant: the default only when both nodes are missing
NodeMissingBoth(g, n1, n2) == ~has_node(g, n1) /\ ~has_node(g, n2)

\* mutant: only the first node is looked up
NodeMissingFirst(g, n1, n2) == ~has_node(g, n1)

NodeMissing(g, n1, n2) == ~has_node(g, n1) \/ ~has_node(g, n2)

\* the five structural metrics appended first; a query on a node that is
\* not in the graph raises NetworkXError
StructuralBlock(nx, g, n1, n2) ==
    IF ~has_node(g, n1) \/ ~has_node(g, n2)
    THEN [raised |-> TRUE, value |-> <<>>]
    ELSE [raised |-> FALSE,
          value |-> << Len(common_neighbors(nx, g, n1, n2)),
                       custom_jaccard_coefficient(g, n1, n2),
                       degree(g, n1) * degree(g, n2),
                       custom_adamic_adar_index(nx, g, n1, n2),
                       custom_resource_allocation_index(nx, g, n1, n2) >>]

\* mutant: the distance measured with the queried edge left in place
PathBlockNoExclusion(g, n1, n2) ==
    [value |-> shortest_path_length(g, n1, n2), graph |-> g]

\* the try block around the shortest path: the value appended and the graph
\* it leaves behind; NetworkXNoPath skips the add_edge that follows the search
PathBlock(g, n1, n2) ==
    IF has_edge(g, n1, n2)
    THEN LET g1 == remove_edge(g, n1, n2)
             path_length == shortest_path_length(g1, n1, n2)
         IN  IF path_length = NoPath
             THEN [value |-> -1, graph |-> g1]
             ELSE [value |-> path_length, graph |-> add_edge(g1, n1, n2)]
    ELSE [value |-> shortest_path_length(g, n1, n2), graph |-> g]

\* mutant: one attribute vector is enough
HasAttributesEither(nf, n1, n2) == n1 \in DOMAIN nf \/ n2 \in DOMAIN nf

HasAttributes(nf, n1, n2) == n1 \in DOMAIN nf /\ n2 \in DOMAIN nf

\* attribute tables read from node_information.csv: one with a vector for
\* the nodes 1 to 3, one that leaves node 1 without a vector.  The means of
\* the vectors are floats exactly
FullTable == (1 :> <<0, 1, 5>>) @@ (2 :> <<0, 6, 3>>) @@ (3 :> <<1, 1, 1>>)

PartialTable == (2 :> <<0, 0>>) @@ (3 :> <<2, 1>>)

AttrTables == {FullTable, PartialTable}

\* the attribute table completed with a vector for every node
WithAllAttributes(nf) ==
    LET L == Len(nf[CHOOSE n \in DOMAIN nf : TRUE])
    IN  [n \in Ids |-> IF n \in DOMAIN nf THEN nf[n] ELSE [k \in 1..L |-> 1]]

\* the vectors a call can meet in the model
Vectors ==
    UNION {{WithAllAttributes(nf)[n] : n \in Ids} \cup {nf[n] : n \in DOMAIN nf}
           : nf \in AttrTables}

\* cos_sim and corr of lines 230 and 235 for every two of these vectors of
\* one length, computed once
Similarity ==
    [p \in {q \in Vectors \X Vectors : Len(q[1]) = Len(q[2])} |->
        <<cosine_similarity(p[1], p[2]), corrcoef(p[1], p[2])>>] @@ <<>>

\* cos_sim and corr of two vectors of one length
similarity(vec1, vec2) ==
    IF <<vec1, vec2>> \in DOMAIN Similarity THEN Similarity[<<vec1, vec2>>]
    ELSE <<cosine_similarity(vec1, vec2), corrcoef(vec1, vec2)>>

\* what lines 231, 236 and 241 append
attribute_features(sim, matching) ==
    << sim[1], IF sim[2] # nan THEN sim[2] ELSE SignedZero, matching >>

\* node_features[n] raises KeyError for a node without attributes, np.dot
\* raises ValueError for vectors of different lengths
AttributeBlock(nf, n1, n2) ==
    IF HasAttributes(nf, n1, n2)
    THEN IF n1 \notin DOMAIN nf \/ n2 \notin DOMAIN nf
         THEN [raised |-> TRUE, value |-> <<>>]
         ELSE IF Len(nf[n1]) # Len(nf[n2])
         THEN [raised |-> TRUE, value |-> <<>>]
         ELSE [raised |-> FALSE,
               value |-> attribute_features(
                             similarity(nf[n1], nf[n2]),
                             matching_topics(nf[n1], nf[n2]))]
    ELSE [raised |-> FALSE, value |-> << SignedZero, SignedZero, 0 >>]

SharedNeighborsRatio(g, n1, n2) ==
    LET neighbors1 == set(neighbors(g, n1))
        neighbors2 == set(neighbors(g, n2))
        inter == Cardinality(neighbors1 \cap neighbors2)
    IN  IF Cardinality(neighbors1) + Cardinality(neighbors2) > 0
        THEN Frac(inter, Cardinality(neighbors1) + Cardinality(neighbors2) - inter)
        ELSE Zero

\* the vector returned, the graph left behind, and whether the call raised
extract_features(nx, g, nf, n1, n2) ==
    IF NodeMissing(g, n1, n2)
    THEN [features |-> DefaultFeatures, graph |-> g, raised |-> FALSE]
    ELSE LET structural == StructuralBlock(nx, g, n1, n2)
         IN  IF structural.raised
             THEN [features |-> <<>>, graph |-> g, raised |-> TRUE]
             ELSE LET path == PathBlock(g, n1, n2)
                      attribute == AttributeBlock(nf, n1, n2)
                  IN  IF attribute.raised
                      THEN [features |-> <<>>, graph |-> path.graph, raised |-> TRUE]
                      ELSE [features |->
                                structural.value
                                \o << path.value >>
                                \o attribute.value
                                \o << SharedNeighborsRatio(path.graph, n1, n2) >>,
                            graph |-> path.graph,
                            raised |-> FALSE]

(***************************************************************************)
(* The notebook: the graph built from train.txt, the two training loops,   *)
(* the test loop.  The lists X, y and test_features, which only collect    *)
(* the vectors for the classifier, are not kept: features is the vector    *)
(* the latest call returned.                                               *)
(***************************************************************************)
\* the lines of train.txt, split: three fields, or a malformed line
Lines ==
    {<<s, d, l>> : s \in Ids, d \in Ids, l \in {0, 1}}
        \cup {<<s, d>> : s \in Ids, d \in Ids}

\* mutant: every row is an edge
IsPositiveAny(label) == label \in {0, 1}

IsPositive(label) == label = 1

\* the state before the first line of train.txt
Init ==
    /\ train_txt = <<>>
    /\ node_features \in AttrTables
    /\ G = [n \in DOMAIN node_features |-> <<>>]
    /\ edges_positive = <<>>
    /\ edges_negative = <<>>
    /\ pc = "build"
    /\ min_examples = 0
    /\ idx = 0
    /\ node1 = 0
    /\ node2 = 0
    /\ G_pre = G
    /\ features = <<>>
    /\ raised = FALSE
    /\ networkx \in Builds

\* one line of train.txt
ReadLine(parts) ==
    /\ pc = "build"
    /\ Len(train_txt) < MaxRows
    /\ train_txt' = Append(train_txt, parts)
    /\ IF Len(parts) = 3
       THEN IF IsPositive(parts[3])
            THEN /\ G' = add_edge(G, parts[1], parts[2])
                 /\ edges_positive' = Append(edges_positive, <<parts[1], parts[2]>>)
                 /\ UNCHANGED edges_negative
            ELSE /\ edges_negative' = Append(edges_negative, <<parts[1], parts[2]>>)
                 /\ UNCHANGED <<G, edges_positive>>
       ELSE UNCHANGED <<G, edges_positive, edges_negative>>
    /\ UNCHANGED <<networkx, node_features, pc, min_examples, idx,
                   node1, node2, G_pre, features, raised>>

\* the training cell starts: the balanced class size
StartTraining ==
    /\ pc = "build"
    /\ pc' = "positive"
    /\ min_examples' = IF Len(edges_positive) < Len(edges_negative)
                       THEN Len(edges_positive) ELSE Len(edges_negative)
    /\ idx' = 0
    /\ UNCHANGED <<networkx, train_txt, node_features, G, edges_positive,
                   edges_negative, node1, node2, G_pre, features, raised>>

\* features = extract_features(G, src, dst) of a loop body
Call(src, dst) ==
    \E r \in {extract_features(networkx, G, node_features, src, dst)} :
        /\ node1' = src
        /\ node2' = dst
        /\ G_pre' = G
        /\ G' = r.graph
        /\ features' = r.features
        /\ raised' = r.raised

ProcessPositive ==
    /\ pc = "positive"
    /\ idx < min_examples
    /\ Call(edges_positive[idx + 1][1], edges_positive[idx + 1][2])
    /\ idx' = idx + 1
    /\ UNCHANGED <<networkx, train_txt, node_features, edges_positive,
                   edges_negative, pc, min_examples>>

PositiveDone ==
    /\ pc = "positive"
    /\ idx = min_examples
    /\ pc' = "negative"
    /\ idx' = 0
    /\ UNCHANGED <<networkx, train_txt, node_features, G, edges_positive,
                   edges_negative, min_examples, node1, node2, G_pre, features, raised>>

ProcessNegative ==
    /\ pc = "negative"
    /\ idx < min_examples
    /\ Call(edges_negative[idx + 1][1], edges_negative[idx + 1][2])
    /\ idx' = idx + 1
    /\ UNCHANGED <<networkx, train_txt, node_features, edges_positive,
                   edges_negative, pc, min_examples>>

NegativeDone ==
    /\ pc = "negative"
    /\ idx = min_examples
    /\ pc' = "test"
    /\ idx' = 0
    /\ UNCHANGED <<networkx, train_txt, node_features, G, edges_positive,
                   edges_negative, min_examples, node1, node2, G_pre, features, raised>>

\* one pair of test.txt
ProcessTest(src, dst) ==
    /\ pc = "test"
    /\ Call(src, dst)
    /\ UNCHANGED <<networkx, train_txt, node_features, edges_positive,
                   edges_negative, pc, min_examples, idx>>

Next ==
    \/ \E parts \in Lines : ReadLine(parts)
    \/ StartTraining
    \/ ProcessPositive
    \/ PositiveDone
    \/ ProcessNegative
    \/ NegativeDone

\* the notebook up to the end of the training loops
Spec == Init /\ [][Next]_vars

(***************************************************************************)
(* The test loop, entered from the graphs that a train.txt of label = 1    *)
(* rows builds: with no other row min_examples is 0, the training loops    *)
(* run no iteration and the graph reaches the test loop as it was built.   *)
(***************************************************************************)
Before(p, q) == p[1] < q[1] \/ (p[1] = q[1] /\ p[2] < q[2])

RECURSIVE SortedRows(_)
SortedRows(E) ==
    IF E = {} THEN <<>>
    ELSE LET p == CHOOSE q \in E : \A o \in E \ {q} : Before(q, o)
         IN  <<p>> \o SortedRows(E \ {p})

RECURSIVE BuildGraph(_, _, _)
BuildGraph(g, rows, k) ==
    IF k > Len(rows) THEN g
    ELSE BuildGraph(add_edge(g, rows[k][1], rows[k][2]), rows, k + 1)

\* the test loop entered with an attribute table of Tables, after a
\* train.txt of the label = 1 rows of Trains
TestLoop(Tables, Trains) ==
    /\ node_features \in Tables
    /\ edges_positive \in Trains
    /\ train_txt = [k \in 1..Len(edges_positive) |->
                       <<edges_positive[k][1], edges_positive[k][2], 1>>]
    /\ G = BuildGraph([n \in DOMAIN node_features |-> <<>>], edges_positive, 1)
    /\ edges_negative = <<>>
    /\ pc = "test"
    /\ min_examples = 0
    /\ idx = 0
    /\ node1 = 0
    /\ node2 = 0
    /\ G_pre = G
    /\ features = <<>>
    /\ raised = FALSE
    /\ networkx \in Builds

\* at most MaxEdges rows, each pair once, in sorted order; the attribute
\* table is the one that leaves a node without a vector
MaxEdges == 3

AllPairs == {p \in Ids \X Ids : p[1] <= p[2]}

InitTest ==
    TestLoop({PartialTable},
             {SortedRows(E) :
                 E \in {F \in SUBSET AllPairs : Cardinality(F) <= MaxEdges}})

NextTest == \E src \in Ids, dst \in Ids : ProcessTest(src, dst)

SpecTest == InitTest /\ [][NextTest]_vars

(***************************************************************************)
(* The test loop on graphs where nodes 1 and 2 share MaxShared neighbours: *)
(* the sums of the index functions have MaxShared terms.  train.txt gives  *)
(* the edges of node 1 in sorted order, those of node 2 in any order, then *)
(* any edges among the shared neighbours; test.txt pairs nodes 1 and 2.    *)
(***************************************************************************)
MaxShared == 3

Shared == 3..(2 + MaxShared)

\* the lists that enumerate the set S, each element once
Orders(S) ==
    {q \in [1..Cardinality(S) -> S] :
        \A i \in DOMAIN q, j \in DOMAIN q : q[i] = q[j] => i = j}

SharedTrains ==
    {[k \in 1..MaxShared |-> <<1, 2 + k>>]
        \o [k \in 1..MaxShared |-> <<2, q[k]>>]
        \o SortedRows(X) :
            q \in Orders(Shared),
            X \in SUBSET {p \in Shared \X Shared : p[1] <= p[2]}}

InitShared == TestLoop(AttrTables, SharedTrains)

NextShared == \E src \in {1, 2}, dst \in {1, 2} : ProcessTest(src, dst)

SpecShared == InitShared /\ [][NextShared]_vars

(***************************************************************************)
(* Reference notions the properties are stated with.                       *)
(***************************************************************************)
Called == node1 # 0

\* the unordered edges of a graph; a self-loop is the singleton {n}
EdgeSet(g) == UNION {{{a, b} : b \in set(g[a])} : a \in DOMAIN g}

RECURSIVE ReachIn(_, _, _)
\* the nodes at the end of a walk of exactly k edges of E from s
ReachIn(E, s, k) ==
    IF k = 0 THEN {s}
    ELSE LET prev == ReachIn(E, s, k - 1)
         IN  {n \in Ids : \E m \in prev : {m, n} \in E}

\* the least number of edges of E joining s and t, -1 when none does
Distance(E, s, t) ==
    IF \E k \in 0..MaxId : t \in ReachIn(E, s, k)
    THEN CHOOSE k \in 0..MaxId :
             /\ t \in ReachIn(E, s, k)
             /\ \A j \in 0..(k - 1) : t \notin ReachIn(E, s, j)
    ELSE -1

\* s and t are joined by a chain of edges of E
Connected(E, s, t) ==
    \E p \in UNION {[1..n -> Ids] : n \in 1..MaxId} :
        /\ p[1] = s
        /\ p[Len(p)] = t
        /\ \A k \in 1..(Len(p) - 1) : {p[k], p[k + 1]} \in E

\* the lines of train.txt read so far, and their kinds
RowsRead == {train_txt[k] : k \in 1..Len(train_txt)}

IsRow1(parts) == Len(parts) = 3 /\ parts[3] = 1

IsRow0(parts) == Len(parts) = 3 /\ parts[3] = 0

PairsOf(rows) == [k \in 1..Len(rows) |-> <<rows[k][1], rows[k][2]>>]

\* train.txt is being read, or has been read and no call was made yet
Ingested == pc = "build" \/ (pc = "positive" /\ idx = 0)

\* the graph the construction cell builds from the lines read
ConstructedGraph ==
    BuildGraph([n \in DOMAIN node_features |-> <<>>],
               PairsOf(SelectSeq(train_txt, IsRow1)), 1)

\* the vector of ten zeros
AllZero ==
    <<0, <<0, 1>>, 0, <<0, 0, 0>>, <<0, 0, 0>>, 0,
      <<0, 0, 0, 0>>, <<0, 0, 0, 0>>, 0, <<0, 1>>>>

(***************************************************************************)
(* C1.  Mutation transparency: an edge (a,b) present when                  *)
(* extract_features(G, a, b) is called is present when the call returns,   *)
(* and the edge set after the call is the edge set before it.              *)
(***************************************************************************)
C1_MutationTransparency ==
    Called =>
        /\ has_edge(G_pre, node1, node2) => has_edge(G, node1, node2)
        /\ EdgeSet(G) = EdgeSet(G_pre)

(***************************************************************************)
(* C2.  Order independence: the vector extract_features returns for any    *)
(* pair is the same whether or not another call (for that pair or any      *)
(* other) was made before: after a call, every pair gets the vector it     *)
(* would have got before the call.                                         *)
(***************************************************************************)
C2_OrderIndependence ==
    Called =>
        \A a \in Ids, b \in Ids :
            extract_features(networkx, G, node_features, a, b).features
                = extract_features(networkx, G_pre, node_features, a, b).features

(***************************************************************************)
(* C3.  Totality: every call of extract_features returns, without raising, *)
(* a list of exactly 10 components.                                        *)
(***************************************************************************)
C3_Totality ==
    Called => (~raised /\ Len(features) = 10)

C3_Witness ==
    /\ Called
    /\ node1 # node2
    /\ has_node(G_pre, node1)
    /\ ~has_node(G_pre, node2)
    /\ node1 \in DOMAIN node_features
    /\ ~raised
    /\ Len(features) = 10

(***************************************************************************)
(* C4.  Leakage-safe distance: when (src, dst) is an edge at the call,     *)
(* ShortestPathLength is the distance between src and dst in the graph     *)
(* without that edge, -1 when no path remains, and never 1 for distinct    *)
(* src and dst.                                                            *)
(***************************************************************************)
C4_LeakageSafeDistance ==
    (Called /\ has_edge(G_pre, node1, node2)) =>
        /\ ~raised
        /\ features[6] = Distance(EdgeSet(G_pre) \ {{node1, node2}}, node1, node2)
        /\ node1 # node2 => features[6] # 1

\* the triangle: the queried edge closes a path of two edges
C4_Witness ==
    /\ Called
    /\ node1 # node2
    /\ has_edge(G_pre, node1, node2)
    /\ features[6] = 2

(***************************************************************************)
(* C5.  Absence fallback: when src or dst is not a node of the graph the   *)
(* call returns the all-zero vector of length 10 and leaves the graph as   *)
(* it was.                                                                 *)
(***************************************************************************)
C5_AbsenceFallback ==
    (Called /\ (~has_node(G_pre, node1) \/ ~has_node(G_pre, node2))) =>
        /\ ~raised
        /\ features = AllZero
        /\ G = G_pre

C5_Witness ==
    /\ Called
    /\ has_node(G_pre, node1)
    /\ ~has_node(G_pre, node2)
    /\ EdgeSet(G_pre) # {}
    /\ features = AllZero
    /\ G = G_pre

(***************************************************************************)
(* C6.  Identity: in every vector returned for two nodes of the graph,     *)
(* SharedNeighborsRatio (index 9) equals JaccardCoefficient (index 1).     *)
(***************************************************************************)
C6_Identity ==
    (Called /\ has_node(G_pre, node1) /\ has_node(G_pre, node2) /\ ~raised) =>
        features[10] = features[2]

(***************************************************************************)
(* C7.  Symmetry: the vector returned for (a, b) equals, component by      *)
(* component, the vector extract_features returns for (b, a) in the same   *)
(* state.                                                                  *)
(***************************************************************************)
C7_Symmetry ==
    Called =>
        features = extract_features(networkx, G_pre, node_features, node2, node1).features

(***************************************************************************)
(* C8.  Attribute-absence fallback: for two nodes of the graph of which    *)
(* one has no attribute vector, CosineSimilarity, PearsonCorrelation and   *)
(* MatchingNonZeroCount are 0 and the other components are what they are   *)
(* when both vectors are present.                                          *)
(***************************************************************************)
C8_AttributeAbsence ==
    (/\ Called
     /\ has_node(G_pre, node1)
     /\ has_node(G_pre, node2)
     /\ (node1 \notin DOMAIN node_features \/ node2 \notin DOMAIN node_features)) =>
        /\ ~raised
        /\ features[7] = <<0, 0, 0, 0>>
        /\ features[8] = <<0, 0, 0, 0>>
        /\ features[9] = 0
        /\ LET full == extract_features(networkx, G_pre, WithAllAttributes(node_features),
                                        node1, node2).features
           IN  \A k \in {1, 2, 3, 4, 5, 6, 10} : features[k] = full[k]

C8_Witness ==
    /\ Called
    /\ node1 # node2
    /\ has_edge(G_pre, node1, node2)
    /\ node1 \in DOMAIN node_features
    /\ node2 \notin DOMAIN node_features
    /\ features[1] > 0
    /\ features[9] = 0

(***************************************************************************)
(* C9.  Graph construction: while train.txt is read and when the read is   *)
(* over, the edges of the graph are exactly the unordered pairs of the     *)
(* label = 1 rows, the label = 0 rows are the negative list, and a pair    *)
(* that occurs only with label 0 is not adjacent.                          *)
(***************************************************************************)
C9_GraphConstruction ==
    Ingested =>
        /\ EdgeSet(G) = {{r[1], r[2]} : r \in {q \in RowsRead : IsRow1(q)}}
        /\ edges_negative = PairsOf(SelectSeq(train_txt, IsRow0))
        /\ edges_positive = PairsOf(SelectSeq(train_txt, IsRow1))
        /\ \A r \in RowsRead :
              (IsRow0(r) /\ <<r[1], r[2], 1>> \notin RowsRead
                         /\ <<r[2], r[1], 1>> \notin RowsRead)
                  => ~has_edge(G, r[1], r[2])

C9_Witness ==
    /\ pc = "positive"
    /\ idx = 0
    /\ train_txt = << <<1, 2, 0>>, <<2, 3, 1>> >>
    /\ ~has_edge(G, 1, 2)
    /\ has_edge(G, 3, 2)
    /\ edges_negative = << <<1, 2>> >>

(***************************************************************************)
(* C10.  Unreachable sentinel: for two nodes of the graph that are not     *)
(* adjacent, ShortestPathLength is the distance between them in the graph  *)
(* as it is (0 for src = dst), and it is -1 exactly when no chain of edges *)
(* joins them; the call does not raise.                                    *)
(***************************************************************************)
C10_UnreachableSentinel ==
    (/\ Called
     /\ has_node(G_pre, node1)
     /\ has_node(G_pre, node2)
     /\ ~has_edge(G_pre, node1, node2)) =>
        /\ ~raised
        /\ features[6] = Distance(EdgeSet(G_pre), node1, node2)
        /\ node1 = node2 => features[6] = 0
        /\ features[6] = -1 <=> ~Connected(EdgeSet(G_pre), node1, node2)

\* an edge elsewhere and the second node isolated
C10_Witness ==
    /\ Called
    /\ node1 # node2
    /\ has_node(G_pre, node1)
    /\ has_node(G_pre, node2)
    /\ \E n \in set(G_pre[node1]) : n # node1
    /\ G_pre[node2] = <<>>
    /\ features[6] = -1

(***************************************************************************)
(* C11.  Frame of extract_features: after any sequence of calls the node   *)
(* set is the one of the constructed graph and no edge exists that the     *)
(* constructed graph did not have; a call leaves the node set as it was    *)
(* when the call was entered, adds no edge, and every edge other than the  *)
(* queried pair is present after the call if and only if it was present    *)
(* before it; no step after the construction changes the attribute table.  *)
(***************************************************************************)
C11_Frame ==
    /\ [](pc # "build" =>
            /\ DOMAIN G = DOMAIN ConstructedGraph
            /\ EdgeSet(G) \subseteq EdgeSet(ConstructedGraph))
    /\ [](Called =>
            /\ DOMAIN G = DOMAIN G_pre
            /\ EdgeSet(G) \subseteq EdgeSet(G_pre)
            /\ \A a \in Ids, b \in Ids :
                  {a, b} # {node1, node2} =>
                      (has_edge(G, a, b) <=> has_edge(G_pre, a, b)))
    /\ [][pc # "build" => node_features' = node_features]_vars

\* a call has removed the queried edge and the other edges are in place
C11_Witness ==
    /\ Called
    /\ EdgeSet(G_pre) \ EdgeSet(G) = {{node1, node2}}
    /\ EdgeSet(G) # {}
    /\ EdgeSet(G) \subseteq EdgeSet(G_pre)
    /\ DOMAIN G = DOMAIN G_pre

====
